---- MODULE Spec2Model ----
(***************************************************************************)
(* Model of yogi's data-flow-graph builder (src/vm/analysis/dfg.rs) and of *)
(* the fixed-point Number type (src/arith/mod.rs).                         *)
(***************************************************************************)
EXTENDS Integers, Sequences, FiniteSets, TLC

VARIABLES
    numbers,      \* vm.numbers.len()
    strings,      \* vm.strings.len()
    values,       \* vm.values.len()
    code,         \* vm.code, the instruction store (location l is code[l + 1])
    vm_globals,   \* vm.globals: global name -> index of its ValueReg
    cfg,          \* the ControlFlowGraph: block id s is cfg[s + 1], a range of locations
    pc,           \* position of dfg() in its body
    section,      \* block id of the outer loop
    loc,          \* location of the inner loop
    nodes,        \* dfg.graph's nodes: node index i is nodes[i + 1]
    map,          \* the AnyReg -> NodeIndex lookup
    edges,        \* dfg.graph's edges, in insertion order
    dfg_globals,  \* dfg.globals
    cursor,       \* blocks processed on their own: block id s has reached location cursor[s + 1]
    pending,      \* ... and pending[s + 1] are the edges of its instruction still to be added
    num,          \* a Number: self.0, the raw scaled integer
    buffer,       \* the YString's data, one character per element
    result,       \* what from_str, or an operator, returned
    rhs,          \* the right operand of an operator
    npc           \* position of the Number scenario

dfgVars == <<numbers, strings, values, code, vm_globals, cfg, pc, section, loc,
             nodes, map, edges, dfg_globals>>

numVars == <<num, buffer, result, rhs, npc>>

orderVars == <<cursor, pending>>

vars == <<dfgVars, numVars, orderVars>>

-----------------------------------------------------------------------------
(* Bounds of the model.                                                    *)

\* registers per bank
MaxRegs == 3
\* instructions of a sampled program
MaxCode == 2
\* width of the machine integer that stands for i64: TLC's integers are
\* 32-bit, so Number's raw value is kept at this width, with the same
\* two's-complement limits and checked operations
IntBits == 15
\* largest magnitude of the raw value that is rendered and parsed back
MaxRaw == 2500
\* how far from 0, from i64::MIN and from i64::MAX the operands of the
\* operators reach
EdgeSpan == 12
\* longest string handed to from_str
MaxStr == 5

-----------------------------------------------------------------------------
(* Registers.                                                              *)

NumberReg(i) == [bank |-> "Number", idx |-> i]
StringReg(i) == [bank |-> "String", idx |-> i]
ValueReg(i) == [bank |-> "Value", idx |-> i]

\* Option::None for an Option<AnyReg>
NoReg == [bank |-> "None", idx |-> 0]

BankRegs(bank, n) == {[bank |-> bank, idx |-> i] : i \in 0 .. (n - 1)}

AnyReg(nN, nS, nV) ==
    BankRegs("Number", nN) \cup BankRegs("String", nS) \cup BankRegs("Value", nV)

-----------------------------------------------------------------------------
(* Instructions, as far as dfg() looks at them.                            *)

UnaryOps ==
    {"MoveSV", "MoveNV", "MoveVV", "IncV", "DecV", "MoveVN", "BoolV",
     "IncS", "DecS", "IncN", "DecN", "Abs", "Fact", "Sqrt", "Sin", "Tan",
     "Asin", "Acos", "Atan", "Neg", "Not", "BoolN", "Cos", "StringifyN",
     "StringifyV", "MoveVS"}

BinaryOps ==
    {"AddS", "SubS", "SubV", "AddV", "AddN", "SubN", "Mul", "Div", "Mod",
     "Pow", "And", "Or", "Eq", "Le", "Lt"}

MarkerOps == {"LineStart", "JumpErr", "JumpLine"}

Unary(op, arg, out) == [op |-> op, arg1 |-> arg, arg2 |-> NoReg, out |-> out]
Binary(op, arg1, arg2, out) == [op |-> op, arg1 |-> arg1, arg2 |-> arg2, out |-> out]
\* JumpRel { condition, .. }: arg1 holds the condition, NoReg for None
JumpRel(condition) == [op |-> "JumpRel", arg1 |-> condition, arg2 |-> NoReg, out |-> NoReg]
Marker(op) == [op |-> op, arg1 |-> NoReg, arg2 |-> NoReg, out |-> NoReg]

\* every instruction over the registers R
HLInstr(R) ==
    {JumpRel(c) : c \in R \cup {NoReg}}
    \cup {Marker(op) : op \in MarkerOps}
    \cup {Unary(op, a, o) : op \in UnaryOps, a \in R, o \in R}
    \cup {Binary(op, a, b, o) : op \in BinaryOps, a \in R, b \in R, o \in R}

\* Decode with the catch-all JumpRel arm tried first: no condition is ever read
Decode_JumpRelSkipped(instr) ==
    IF instr.op \in UnaryOps
    THEN [skip |-> FALSE, i_arg1 |-> instr.arg1, i_arg2 |-> NoReg, i_out |-> instr.out]
    ELSE IF instr.op \in BinaryOps
    THEN [skip |-> FALSE, i_arg1 |-> instr.arg1, i_arg2 |-> instr.arg2, i_out |-> instr.out]
    ELSE [skip |-> TRUE, i_arg1 |-> NoReg, i_arg2 |-> NoReg, i_out |-> NoReg]

\* the match on vm.code[loc]: the operands, or skip for the `continue` arm
Decode(instr) ==
    IF instr.op = "JumpRel" /\ instr.arg1 # NoReg
    THEN [skip |-> FALSE, i_arg1 |-> instr.arg1, i_arg2 |-> NoReg, i_out |-> NoReg]
    ELSE IF instr.op \in UnaryOps
    THEN [skip |-> FALSE, i_arg1 |-> instr.arg1, i_arg2 |-> NoReg, i_out |-> instr.out]
    ELSE IF instr.op \in BinaryOps
    THEN [skip |-> FALSE, i_arg1 |-> instr.arg1, i_arg2 |-> instr.arg2, i_out |-> instr.out]
    ELSE [skip |-> TRUE, i_arg1 |-> NoReg, i_arg2 |-> NoReg, i_out |-> NoReg]

-----------------------------------------------------------------------------
(* Edges.                                                                  *)

\* flow_info_arg1 as first built: (Read, Read) at this block and location
FlowInfo(s, l) == [cfg_node |-> s, instr |-> l, source |-> "Read", target |-> "Read"]

\* dfg.add_edge(a, b, weight)
Edge(a, b, weight) == [source |-> a, target |-> b, weight |-> weight]

\* EmitRead tagging the register as modified
EmitRead_ReadWrite(d, info, m) ==
    LET node == m[d.i_arg1] IN
    <<Edge(node, node, [info EXCEPT !.source = "ReadWrite", !.target = "ReadWrite"])>>

\* (None, None): a pure read
EmitRead(d, info, m) ==
    LET node == m[d.i_arg1] IN <<Edge(node, node, info)>>

\* EmitUnary comparing register indices only, not banks
EmitUnary_IndexOnly(d, info, m) ==
    LET arg == m[d.i_arg1] IN
    IF d.i_arg1.idx = d.i_out.idx
    THEN <<Edge(arg, arg, [info EXCEPT !.source = "ReadWrite", !.target = "ReadWrite"])>>
    ELSE <<Edge(arg, m[d.i_out], [info EXCEPT !.target = "Write"])>>

\* (None, Some(out)): one input, one output
EmitUnary(d, info, m) ==
    LET arg == m[d.i_arg1] IN
    IF d.i_arg1 = d.i_out
    THEN <<Edge(arg, arg, [info EXCEPT !.source = "ReadWrite", !.target = "ReadWrite"])>>
    ELSE <<Edge(arg, m[d.i_out], [info EXCEPT !.target = "Write"])>>

\* EmitBinarySame without the i_arg1 == arg2 test: one edge per operand
EmitBinarySame_PerOperand(d, info, m) ==
    LET arg1 == m[d.i_arg1] IN
    IF d.i_arg1 = d.i_out
    THEN <<Edge(arg1, arg1, [info EXCEPT !.source = "ReadWrite", !.target = "ReadWrite"]),
           Edge(m[d.i_arg2], arg1, [info EXCEPT !.target = "Write"])>>
    ELSE <<Edge(arg1, m[d.i_out], [info EXCEPT !.target = "Write"]),
           Edge(m[d.i_arg2], m[d.i_out], [info EXCEPT !.target = "Write"])>>

\* (Some(arg2), Some(out)) with i_arg1 == arg2
EmitBinarySame(d, info, m) ==
    LET arg1 == m[d.i_arg1] IN
    IF d.i_arg1 = d.i_out
    THEN <<Edge(arg1, arg1, [info EXCEPT !.source = "ReadWrite", !.target = "ReadWrite"])>>
    ELSE <<Edge(arg1, m[d.i_out], [info EXCEPT !.source = "Read", !.target = "Write"])>>

\* EmitBinaryArg1Out with the second edge drawn from the output to arg2
EmitBinaryArg1Out_Outward(d, info, m) ==
    LET arg1 == m[d.i_arg1] IN
    <<Edge(arg1, arg1, [info EXCEPT !.source = "ReadWrite", !.target = "ReadWrite"]),
      Edge(arg1, m[d.i_arg2], [info EXCEPT !.target = "Write"])>>

\* (Some(arg2), Some(out)) with i_arg1 == out, arg2 another register
EmitBinaryArg1Out(d, info, m) ==
    LET arg1 == m[d.i_arg1]
        flow_info_arg2 == info
    IN  <<Edge(arg1, arg1, [info EXCEPT !.source = "ReadWrite", !.target = "ReadWrite"]),
          Edge(m[d.i_arg2], arg1, [flow_info_arg2 EXCEPT !.target = "Write"])>>

\* EmitBinaryArg2Out as a copy of the arg1 == out arm: the self-loop is on arg1
EmitBinaryArg2Out_LoopOnArg1(d, info, m) ==
    LET arg1 == m[d.i_arg1]
        arg2 == m[d.i_arg2]
    IN  <<Edge(arg1, arg1, [info EXCEPT !.source = "ReadWrite", !.target = "ReadWrite"]),
          Edge(arg2, arg1, [info EXCEPT !.target = "Write"])>>

\* (Some(arg2), Some(out)) with arg2 == out, i_arg1 another register
EmitBinaryArg2Out(d, info, m) ==
    LET arg1 == m[d.i_arg1]
        arg2 == m[d.i_arg2]
        flow_info_arg2 == info
    IN  <<Edge(arg2, arg2, [info EXCEPT !.source = "ReadWrite", !.target = "ReadWrite"]),
          Edge(arg1, arg2, [flow_info_arg2 EXCEPT !.target = "Write"])>>

\* EmitBinaryDistinct with the second edge drawn from arg1 again
EmitBinaryDistinct_Arg1Twice(d, info, m) ==
    LET arg1 == m[d.i_arg1]
        out == m[d.i_out]
    IN  <<Edge(arg1, out, [info EXCEPT !.target = "Write"]),
          Edge(arg1, out, [info EXCEPT !.target = "Write"])>>

\* (Some(arg2), Some(out)), three different registers
EmitBinaryDistinct(d, info, m) ==
    LET arg1 == m[d.i_arg1]
        out == m[d.i_out]
        flow_info_arg2 == info
    IN  <<Edge(arg1, out, [info EXCEPT !.target = "Write"]),
          Edge(m[d.i_arg2], out, [flow_info_arg2 EXCEPT !.target = "Write"])>>

\* the match on (i_arg2, i_out): the edges one instruction adds, in order
EmitEdges(d, s, l, m) ==
    LET info == FlowInfo(s, l) IN
    IF d.i_arg2 = NoReg /\ d.i_out = NoReg THEN EmitRead(d, info, m)
    ELSE IF d.i_arg2 = NoReg THEN EmitUnary(d, info, m)
    ELSE IF d.i_arg1 = d.i_arg2 THEN EmitBinarySame(d, info, m)
    ELSE IF d.i_arg1 = d.i_out THEN EmitBinaryArg1Out(d, info, m)
    ELSE IF d.i_arg2 = d.i_out THEN EmitBinaryArg2Out(d, info, m)
    ELSE EmitBinaryDistinct(d, info, m)

-----------------------------------------------------------------------------
(* Node creation.                                                          *)

\* BankNodes with an inclusive range, 0..=n
BankNodes_Inclusive(bank, n) == [i \in 1 .. (n + 1) |-> [reg |-> [bank |-> bank, idx |-> i - 1]]]

\* the nodes one `for reg in 0..n` loop adds, in order
BankNodes(bank, n) == [i \in 1 .. n |-> [reg |-> [bank |-> bank, idx |-> i - 1]]]

\* the lookup after appending `added` to a graph that held `before` nodes
MapWith(m, before, added) ==
    [r \in DOMAIN m \cup {added[i].reg : i \in 1 .. Len(added)} |->
        IF \E i \in 1 .. Len(added) : added[i].reg = r
        THEN before + (CHOOSE i \in 1 .. Len(added) : added[i].reg = r) - 1
        ELSE m[r]]

EmptyMap == [r \in {} |-> 0]

-----------------------------------------------------------------------------
(* Number: the raw integer.                                                *)

\* Number::SCALE
SCALE == 1000

\* i64::MAX and i64::MIN at the model's width
I64_MAX == 2 ^ (IntBits - 1) - 1
I64_MIN == -(2 ^ (IntBits - 1))

I64 == I64_MIN .. I64_MAX

\* `/` and `%` of Rust integers: the quotient truncates toward zero and the
\* remainder has the sign of the dividend (b > 0)
TruncDiv(a, b) == IF a >= 0 THEN a \div b ELSE -((-a) \div b)
TruncRem(a, b) == a - b * TruncDiv(a, b)

\* unsigned_abs
UnsignedAbs(a) == IF a < 0 THEN -a ELSE a

\* checked_mul, checked_add, checked_neg, checked_div: the result, or
\* overflow. A factor is at most 10 here and TLC's integers hold the product.
Checked(v) == [overflow |-> v < I64_MIN \/ v > I64_MAX, val |-> v]

Digits == <<"0", "1", "2", "3", "4", "5", "6", "7", "8", "9">>

\* std::char::from_digit(d, 10)
FromDigit(d) == Digits[d + 1]

\* c.is_ascii_digit()
IsAsciiDigit(c) == \E d \in 0 .. 9 : Digits[d + 1] = c

\* c as i64 - '0' as i64, for an ASCII digit
DigitValue(c) == CHOOSE d \in 0 .. 9 : Digits[d + 1] = c

Reverse(s) == [i \in 1 .. Len(s) |-> s[Len(s) + 1 - i]]

-----------------------------------------------------------------------------
(* Number::stringify_with_buffer.                                          *)

RECURSIVE IntLoop(_)
\* the first loop: the integer part's digits, least significant first,
\* pushed until the quotient is 0 (at least one digit)
IntLoop(int) ==
    LET rem == int % 10
        rest == int \div 10
    IN  <<FromDigit(rem)>> \o (IF rest = 0 THEN <<>> ELSE IntLoop(rest))

RECURSIVE DecLoop(_, _)
\* the second loop, `left` iterations to go: the fraction's digits, least
\* significant first, ended early once the quotient is 0
DecLoop(dec, left) ==
    IF left = 0 THEN <<>>
    ELSE LET rem == dec % 10
             rest == dec \div 10
         IN  <<FromDigit(rem)>> \o (IF rest = 0 THEN <<>> ELSE DecLoop(rest, left - 1))

\* iterations of `for _ in 0..3`
DecIterations == 3

\* the buffer's data after stringify_with_buffer(self, buffer)
StringifyWithBuffer(self, data) ==
    LET int0 == TruncDiv(self, SCALE)
        dec == UnsignedAbs(TruncRem(self, SCALE))
        neg == int0 < 0
        int == UnsignedAbs(int0)
        pushed == data \o IntLoop(int) \o (IF neg THEN <<"-">> ELSE <<>>)
        whole == Reverse(pushed)
    IN  IF dec = 0 THEN whole
        ELSE whole \o <<".">> \o Reverse(DecLoop(dec, DecIterations))

\* Number::stringify: on YString::default()
StringifyNumber(self) == StringifyWithBuffer(self, <<>>)

-----------------------------------------------------------------------------
(* <Number as FromStr>::from_str.                                          *)

Ok(v) == [kind |-> "Ok", val |-> v, ch |-> ""]
ErrOverflow == [kind |-> "Overflow", val |-> 0, ch |-> ""]
ErrUnknownChar(c) == [kind |-> "UnknownChar", val |-> 0, ch |-> c]
\* s.as_bytes()[0] on an empty string: index out of bounds
Panic == [kind |-> "Panic", val |-> 0, ch |-> ""]
NoResult == [kind |-> "None", val |-> 0, ch |-> ""]

\* position of the first '.', 0 when there is none
DotAt(s) ==
    IF \E i \in 1 .. Len(s) : s[i] = "."
    THEN CHOOSE i \in 1 .. Len(s) : s[i] = "." /\ \A j \in 1 .. (i - 1) : s[j] # "."
    ELSE 0

\* one digit step of either loop: exp already moved, val += exp * digit
Accumulate(exp, val, c) ==
    LET d == Checked(exp * DigitValue(c)) IN
    IF d.overflow THEN ErrOverflow
    ELSE LET sum == Checked(val + d.val) IN
         IF sum.overflow THEN ErrOverflow ELSE Ok(sum.val)

RECURSIVE BigLoop(_, _, _, _)
\* `for c in big.rev()`: characters k, k - 1, .. 1 of big still to read
BigLoop(big, k, exp, val) ==
    IF k = 0 THEN Ok(val)
    ELSE LET c == big[k] IN
         IF ~IsAsciiDigit(c) THEN ErrUnknownChar(c)
         ELSE LET e == Checked(exp * 10) IN
              IF e.overflow THEN ErrOverflow
              ELSE LET r == Accumulate(e.val, val, c) IN
                   IF r.kind # "Ok" THEN r ELSE BigLoop(big, k - 1, e.val, r.val)

RECURSIVE SmallLoop(_, _, _, _)
\* `for c in small.take(3)`: characters k .. of small still to read
SmallLoop(small, k, exp, val) ==
    IF k > Len(small) \/ k > 3 THEN Ok(val)
    ELSE LET c == small[k] IN
         IF ~IsAsciiDigit(c) THEN ErrUnknownChar(c)
         ELSE LET e == TruncDiv(UnsignedAbs(exp), 10) * (IF exp < 0 THEN -1 ELSE 1)
                  r == Accumulate(e, val, c)
              IN  IF r.kind # "Ok" THEN r ELSE SmallLoop(small, k + 1, e, r.val)

FromStr(s) ==
    IF Len(s) = 0 THEN Panic
    ELSE
    LET neg == s[1] = "-"
        dot == DotAt(s)
        big0 == IF dot = 0 THEN s ELSE SubSeq(s, 1, dot - 1)
        hasSmall == dot # 0
        small == IF dot = 0 THEN <<>> ELSE SubSeq(s, dot + 1, Len(s))
        big == IF neg THEN Tail(big0) ELSE big0
        whole == BigLoop(big, Len(big), SCALE \div 10, 0)
    IN  IF whole.kind # "Ok" THEN whole
        ELSE LET val == IF neg THEN Checked(-whole.val) ELSE Checked(whole.val) IN
             IF val.overflow THEN ErrOverflow
             ELSE IF ~hasSmall THEN Ok(val.val)
             ELSE SmallLoop(small, 1, IF neg THEN -SCALE ELSE SCALE, val.val)

-----------------------------------------------------------------------------
(* Number: the operators.                                                  *)

ErrDivZero == [kind |-> "DivZero", val |-> 0, ch |-> ""]
ErrModZero == [kind |-> "ModZero", val |-> 0, ch |-> ""]

\* the two's-complement value of v at the integer's width
Wrap(v) == ((v - I64_MIN) % (2 ^ IntBits)) + I64_MIN

WrappingAdd(a, b) == Wrap(a + b)
WrappingSub(a, b) == Wrap(a - b)
WrappingMul(a, b) == Wrap(a * b)
\* overflowing_neg(a).0
OverflowingNeg(a) == Wrap(-a)

\* the quotient truncated toward zero, for any b # 0
Quotient(a, b) ==
    LET q == UnsignedAbs(a) \div UnsignedAbs(b)
    IN  IF (a < 0) = (b < 0) THEN q ELSE -q

\* the `/` of i64: panics on a zero divisor and on MIN / -1
PlainDiv(a, b) ==
    IF b = 0 \/ (a = I64_MIN /\ b = -1) THEN Panic ELSE Ok(Quotient(a, b))

\* wrapping_div: panics on a zero divisor only; MIN / -1 is MIN
WrappingDiv(a, b) ==
    IF b = 0 THEN Panic ELSE Ok(Wrap(Quotient(a, b)))

\* wrapping_rem: panics on a zero divisor only; MIN % -1 is 0
WrappingRem(a, b) ==
    IF b = 0 THEN Panic ELSE Ok(a - b * Quotient(a, b))

\* <Number as Add>::add
add(self, other) == Ok(WrappingAdd(self, other))

\* <Number as Sub>::sub
sub(self, other) == Ok(WrappingSub(self, other))

\* <Number as Neg>::neg
neg(self) == Ok(OverflowingNeg(self))

\* mul that scales the product down before it is wrapped
mul_ScaleFirst(self, other) == Ok(Wrap(Quotient(self * other, SCALE)))

\* <Number as Mul>::mul
mul(self, other) == PlainDiv(WrappingMul(self, other), SCALE)

\* div with the `/` of i64 in place of wrapping_div
div_Plain(self, other) ==
    IF other = 0 THEN ErrDivZero
    ELSE PlainDiv(WrappingMul(self, SCALE), other)

\* <Number as Div>::div
div(self, other) ==
    IF other = 0 THEN ErrDivZero
    ELSE WrappingDiv(WrappingMul(self, SCALE), other)

\* <Number as Rem>::rem
rem(self, other) ==
    IF other = 0 THEN ErrModZero
    ELSE WrappingRem(self, other)

-----------------------------------------------------------------------------
(* Inputs.                                                                 *)

GlobalNames == {"a", "b"}

\* every vm.globals over nV value registers
GlobalMaps(nV) ==
    UNION {[names -> 0 .. (nV - 1)] : names \in SUBSET GlobalNames}

Injections(S, n) == {f \in [1 .. n -> S] : \A i, j \in 1 .. n : f[i] = f[j] => i = j}

\* the orders in which a map's keys can be iterated
KeyOrders(f) == Injections(DOMAIN f, Cardinality(DOMAIN f))

RECURSIVE Blocks(_, _)
\* the splits of locations lo .. n - 1 into consecutive non-empty basic blocks
Blocks(lo, n) ==
    IF lo >= n THEN {<<>>}
    ELSE UNION {{<<[lo |-> lo, hi |-> hi]>> \o rest : rest \in Blocks(hi, n)} :
                    hi \in (lo + 1) .. n}

\* the CFGs of a program of n instructions: its basic blocks under any numbering
Cfgs(n) ==
    UNION {{[i \in 1 .. Len(b) |-> b[f[i]]] : f \in Injections(1 .. Len(b), Len(b))} :
                b \in Blocks(0, n)}

\* the instructions sampled programs are made of
SampleInstrs ==
    {Marker("LineStart"), JumpRel(NoReg), JumpRel(NumberReg(0)),
     Unary("MoveVV", ValueReg(0), ValueReg(0)),
     Unary("MoveNV", NumberReg(0), ValueReg(1)),
     Binary("AddV", ValueReg(0), ValueReg(1), ValueReg(0)),
     Binary("AddN", NumberReg(1), NumberReg(1), NumberReg(0)),
     Binary("Eq", ValueReg(0), ValueReg(1), NumberReg(0))}

Programs(S, n) == UNION {[1 .. k -> S] : k \in 0 .. n}

-----------------------------------------------------------------------------
(* dfg(): construction starts with an empty graph, lookup and globals      *)
(* list.                                                                   *)

Fresh ==
    /\ pc = "numbers"
    /\ section = 0
    /\ loc = 0
    /\ nodes = <<>>
    /\ map = EmptyMap
    /\ edges = <<>>
    /\ dfg_globals = <<>>
    /\ cursor = [s \in 1 .. Len(cfg) |-> cfg[s].lo]
    /\ pending = [s \in 1 .. Len(cfg) |-> <<>>]

\* no Number scenario runs
NumIdle ==
    /\ num = 0
    /\ buffer = <<>>
    /\ result = NoResult
    /\ rhs = 0
    /\ npc = "idle"

\* one instruction, any instruction, on full register banks
InitInstr ==
    /\ numbers = MaxRegs /\ strings = MaxRegs /\ values = MaxRegs
    /\ code \in {<<i>> : i \in HLInstr(AnyReg(MaxRegs, MaxRegs, MaxRegs))}
    /\ cfg = <<[lo |-> 0, hi |-> 1]>>
    /\ vm_globals \in GlobalMaps(1)
    /\ Fresh

\* sampled programs under every CFG
InitProgram ==
    /\ numbers = MaxRegs /\ strings = MaxRegs /\ values = MaxRegs
    /\ code \in Programs(SampleInstrs, MaxCode)
    /\ Len(code) >= 2
    /\ cfg \in Cfgs(Len(code))
    /\ vm_globals = [n \in {"a"} |-> 1]
    /\ Fresh

\* every shape of the register banks and of the globals, no code
InitShape ==
    /\ numbers \in 0 .. MaxRegs /\ strings \in 0 .. MaxRegs /\ values \in 0 .. MaxRegs
    /\ code = <<>>
    /\ cfg = <<>>
    /\ vm_globals \in GlobalMaps(values)
    /\ Fresh

Init == (InitInstr \/ InitProgram \/ InitShape) /\ NumIdle

-----------------------------------------------------------------------------
(* dfg(): the steps.                                                       *)

inputs == <<numbers, strings, values, code, vm_globals, cfg>>

\* for reg in 0..vm.numbers.len()
AddNumberNodes ==
    /\ pc = "numbers"
    /\ LET added == BankNodes("Number", numbers) IN
        /\ nodes' = nodes \o added
        /\ map' = MapWith(map, Len(nodes), added)
    /\ pc' = "strings"
    /\ UNCHANGED <<inputs, section, loc, edges, dfg_globals, numVars, orderVars>>

\* for reg in 0..vm.strings.len()
AddStringNodes ==
    /\ pc = "strings"
    /\ LET added == BankNodes("String", strings) IN
        /\ nodes' = nodes \o added
        /\ map' = MapWith(map, Len(nodes), added)
    /\ pc' = "values"
    /\ UNCHANGED <<inputs, section, loc, edges, dfg_globals, numVars, orderVars>>

\* the first location of block s, when there is such a block
FirstLoc(s) == IF s < Len(cfg) THEN cfg[s + 1].lo ELSE 0

\* for reg in 0..vm.values.len(), then on to the first block
AddValueNodes ==
    /\ pc = "values"
    /\ LET added == BankNodes("Value", values) IN
        /\ nodes' = nodes \o added
        /\ map' = MapWith(map, Len(nodes), added)
    /\ pc' = "blocks"
    /\ section' = 0
    /\ loc' = FirstLoc(0)
    /\ UNCHANGED <<inputs, edges, dfg_globals, numVars, orderVars>>

InBlock == pc = "blocks" /\ section < Len(cfg) /\ loc < cfg[section + 1].hi

\* an instruction of the `continue` arm
SkipInstr ==
    /\ InBlock
    /\ Decode(code[loc + 1]).skip
    /\ loc' = loc + 1
    /\ UNCHANGED <<inputs, pc, section, nodes, map, edges, dfg_globals, numVars, orderVars>>

\* an instruction with operands: its edges are added
EmitInstr ==
    /\ InBlock
    /\ LET d == Decode(code[loc + 1]) IN
        /\ ~d.skip
        /\ edges' = edges \o EmitEdges(d, section, loc, map)
    /\ loc' = loc + 1
    /\ UNCHANGED <<inputs, pc, section, nodes, map, dfg_globals, numVars, orderVars>>

\* the block's range is exhausted: on to the next block
NextSection ==
    /\ pc = "blocks" /\ section < Len(cfg) /\ loc >= cfg[section + 1].hi
    /\ section' = section + 1
    /\ loc' = FirstLoc(section + 1)
    /\ UNCHANGED <<inputs, pc, nodes, map, edges, dfg_globals, numVars, orderVars>>

\* GlobalNodes taking the globals to be the first value registers
GlobalNodes_ByPosition(order) ==
    [i \in 1 .. Len(order) |-> map[ValueReg((i - 1) % values)]]

\* the nodes of vm.globals.values(), in one of the map's iteration orders
GlobalNodes(order) == [i \in 1 .. Len(order) |-> map[ValueReg(vm_globals[order[i]])]]

\* dfg.globals.extend(...), and dfg is returned
ExtendGlobals ==
    /\ pc = "blocks" /\ section >= Len(cfg)
    /\ \E order \in KeyOrders(vm_globals) :
        dfg_globals' = dfg_globals \o GlobalNodes(order)
    /\ pc' = "done"
    /\ UNCHANGED <<inputs, section, loc, nodes, map, edges, numVars, orderVars>>

Next ==
    \/ AddNumberNodes
    \/ AddStringNodes
    \/ AddValueNodes
    \/ SkipInstr
    \/ EmitInstr
    \/ NextSection
    \/ ExtendGlobals

Spec == Init /\ [][Next]_vars

-----------------------------------------------------------------------------
(* dfg() with the blocks of the outer loop processed in any order, the     *)
(* edges of different blocks interleaved: the nodes are created first, as  *)
(* in dfg(), and the body of the inner loop is dfg()'s.                    *)

\* dfg.add_edge with petgraph's update_edge: an edge between the same two
\* nodes is overwritten
AddEdge_Update(g, e) ==
    IF \E i \in 1 .. Len(g) : g[i].source = e.source /\ g[i].target = e.target
    THEN [i \in 1 .. Len(g) |->
            IF g[i].source = e.source /\ g[i].target = e.target THEN e ELSE g[i]]
    ELSE Append(g, e)

\* dfg.add_edge(a, b, weight): a new edge, whatever edges there are
AddEdge(g, e) == Append(g, e)

\* block s takes its next instruction: the operands are decoded and the
\* edges to add are determined
DecodeInstr(s) ==
    /\ pc = "blocks" /\ section < Len(cfg)
    /\ pending[s + 1] = <<>>
    /\ cursor[s + 1] < cfg[s + 1].hi
    /\ LET l == cursor[s + 1]
           d == Decode(code[l + 1]) IN
        pending' = [pending EXCEPT
                        ![s + 1] = IF d.skip THEN <<>> ELSE EmitEdges(d, s, l, map)]
    /\ cursor' = [cursor EXCEPT ![s + 1] = @ + 1]
    /\ UNCHANGED <<inputs, pc, section, loc, nodes, map, edges, dfg_globals, numVars>>

\* block s adds the next edge of its instruction
AddPending(s) ==
    /\ pc = "blocks" /\ section < Len(cfg)
    /\ pending[s + 1] # <<>>
    /\ edges' = AddEdge(edges, Head(pending[s + 1]))
    /\ pending' = [pending EXCEPT ![s + 1] = Tail(@)]
    /\ UNCHANGED <<inputs, pc, section, loc, nodes, map, dfg_globals, cursor, numVars>>

\* every block is through its range: the outer loop is over
BlocksDone ==
    /\ pc = "blocks" /\ section < Len(cfg)
    /\ \A s \in 1 .. Len(cfg) : cursor[s] >= cfg[s].hi /\ pending[s] = <<>>
    /\ section' = Len(cfg)
    /\ UNCHANGED <<inputs, pc, loc, nodes, map, edges, dfg_globals, orderVars, numVars>>

NextAnyOrder ==
    \/ AddNumberNodes
    \/ AddStringNodes
    \/ AddValueNodes
    \/ \E s \in 0 .. (Len(cfg) - 1) : DecodeInstr(s)
    \/ \E s \in 0 .. (Len(cfg) - 1) : AddPending(s)
    \/ BlocksDone
    \/ ExtendGlobals

\* sampled programs under every CFG, as for dfg() itself
InitAnyOrder == InitProgram /\ NumIdle

SpecAnyOrder == InitAnyOrder /\ [][NextAnyOrder]_vars

-----------------------------------------------------------------------------
(* Number: a value is rendered, and the rendering is parsed back.          *)

\* no graph is under construction
DfgIdle ==
    /\ numbers = 0 /\ strings = 0 /\ values = 0
    /\ code = <<>>
    /\ cfg = <<>>
    /\ vm_globals = EmptyMap
    /\ pc = "idle"
    /\ section = 0
    /\ loc = 0
    /\ nodes = <<>>
    /\ map = EmptyMap
    /\ edges = <<>>
    /\ dfg_globals = <<>>
    /\ cursor = <<>>
    /\ pending = <<>>

InitNum ==
    /\ num \in (-MaxRaw) .. MaxRaw
    /\ buffer = <<>>
    /\ result = NoResult
    /\ rhs = 0
    /\ npc = "start"
    /\ DfgIdle

\* buffer = num.stringify()
Stringify ==
    /\ npc = "start"
    /\ buffer' = StringifyNumber(num)
    /\ npc' = "stringified"
    /\ UNCHANGED <<num, result, rhs, dfgVars, orderVars>>

\* result = Number::from_str(buffer)
Parse ==
    /\ npc = "stringified"
    /\ result' = FromStr(buffer)
    /\ npc' = "parsed"
    /\ UNCHANGED <<num, buffer, rhs, dfgVars, orderVars>>

NextNum ==
    \/ Stringify
    \/ Parse

SpecNum == InitNum /\ [][NextNum]_vars

-----------------------------------------------------------------------------
(* Number: an operator is applied to two operands.                         *)

\* the powers of two of the integer's width and their negations
PowersOfTwo == UNION {{2 ^ j, -(2 ^ j)} : j \in 0 .. (IntBits - 2)}

\* operands around 0, at both ends of the range, the multiples of SCALE
\* next to 0 and the powers of two
Operands ==
    ((-EdgeSpan) .. EdgeSpan)
    \cup (I64_MIN .. (I64_MIN + EdgeSpan))
    \cup ((I64_MAX - EdgeSpan) .. I64_MAX)
    \cup {k * SCALE : k \in (-EdgeSpan) .. EdgeSpan}
    \cup PowersOfTwo

InitArith ==
    /\ num \in Operands
    /\ rhs \in Operands
    /\ buffer = <<>>
    /\ result = NoResult
    /\ npc = "operands"
    /\ DfgIdle

\* result = num + rhs
Add ==
    /\ npc = "operands"
    /\ result' = add(num, rhs)
    /\ npc' = "add"
    /\ UNCHANGED <<num, rhs, buffer, dfgVars, orderVars>>

\* result = num - rhs
Sub ==
    /\ npc = "operands"
    /\ result' = sub(num, rhs)
    /\ npc' = "sub"
    /\ UNCHANGED <<num, rhs, buffer, dfgVars, orderVars>>

\* result = -num
Neg ==
    /\ npc = "operands"
    /\ result' = neg(num)
    /\ npc' = "neg"
    /\ UNCHANGED <<num, rhs, buffer, dfgVars, orderVars>>

\* result = num * rhs
Mul ==
    /\ npc = "operands"
    /\ result' = mul(num, rhs)
    /\ npc' = "mul"
    /\ UNCHANGED <<num, rhs, buffer, dfgVars, orderVars>>

\* result = num / rhs
Div ==
    /\ npc = "operands"
    /\ result' = div(num, rhs)
    /\ npc' = "div"
    /\ UNCHANGED <<num, rhs, buffer, dfgVars, orderVars>>

\* result = num % rhs
Rem ==
    /\ npc = "operands"
    /\ result' = rem(num, rhs)
    /\ npc' = "rem"
    /\ UNCHANGED <<num, rhs, buffer, dfgVars, orderVars>>

NextArith ==
    \/ Add
    \/ Sub
    \/ Neg
    \/ Mul
    \/ Div
    \/ Rem

SpecArith == InitArith /\ [][NextArith]_vars

-----------------------------------------------------------------------------
(* Number: any string is parsed.                                           *)

\* the characters of the input strings: digits, the sign, the point and a
\* character that is none of these
Chars == {"0", "1", "6", "9", "-", ".", "x"}

Strings == UNION {[1 .. k -> Chars] : k \in 0 .. MaxStr}

InitParse ==
    /\ buffer \in Strings
    /\ num = 0
    /\ rhs = 0
    /\ result = NoResult
    /\ npc = "input"
    /\ DfgIdle

\* result = Number::from_str(buffer), the call returns or panics
ParseInput ==
    /\ npc = "input"
    /\ result' = FromStr(buffer)
    /\ npc' = "returned"
    /\ UNCHANGED <<num, buffer, rhs, dfgVars, orderVars>>

NextParse == ParseInput

SpecParse == InitParse /\ [][NextParse]_vars

-----------------------------------------------------------------------------
(* What an instruction left in the graph.                                  *)

BlockIds == 0 .. (Len(cfg) - 1)
Locs == 0 .. (Len(code) - 1)

\* location l belongs to block s and the loops have gone past it
Processed(s, l) ==
    /\ s \in BlockIds
    /\ cfg[s + 1].lo <= l /\ l < cfg[s + 1].hi
    /\ \/ pc = "done"
       \/ pc = "blocks" /\ (s < section \/ (s = section /\ l < loc))

IsOf(s, l, e) == e.weight.cfg_node = s /\ e.weight.instr = l

\* an edge as a dependency between registers
Arc(e) ==
    [from |-> nodes[e.source + 1].reg, to |-> nodes[e.target + 1].reg,
     source |-> e.weight.source, target |-> e.weight.target]

\* the dependencies the instruction at l of block s added, in order
ArcsOf(s, l) ==
    LET es == SelectSeq(edges, LAMBDA e : IsOf(s, l, e))
    IN  [i \in 1 .. Len(es) |-> Arc(es[i])]

SelfLoop(r, tag) == [from |-> r, to |-> r, source |-> tag, target |-> tag]
ReadToWrite(a, o) == [from |-> a, to |-> o, source |-> "Read", target |-> "Write"]

Range(s) == {s[i] : i \in 1 .. Len(s)}

IsBinary(i) == i.op \in BinaryOps
IsUnary(i) == i.op \in UnaryOps
IsConditionRead(i) == i.op = "JumpRel" /\ i.arg1 # NoReg

\* C1: a processed binary instruction whose two inputs are the same register
\* has added exactly one edge: the (ReadWrite, ReadWrite) self-loop when out
\* is that register too, otherwise arg1 -> out tagged (Read, Write).
C1_SameInputs ==
    \A s \in BlockIds, l \in Locs :
        LET i == code[l + 1] IN
        (Processed(s, l) /\ IsBinary(i) /\ i.arg1 = i.arg2) =>
            ArcsOf(s, l) = IF i.out = i.arg1
                           THEN <<SelfLoop(i.arg1, "ReadWrite")>>
                           ELSE <<ReadToWrite(i.arg1, i.out)>>

C1_Witness ==
    /\ pc = "done"
    /\ \E s \in BlockIds, l \in Locs :
        /\ Processed(s, l) /\ IsBinary(code[l + 1])
        /\ code[l + 1].arg1 = code[l + 1].arg2
        /\ code[l + 1].out # code[l + 1].arg1
        /\ Len(ArcsOf(s, l)) = 1

\* C2: a processed binary instruction with two different inputs, one of which
\* is the output, has added exactly two edges: the (ReadWrite, ReadWrite)
\* self-loop on the aliased register and the edge from the other input to it
\* tagged (Read, Write); for arg1 == out and for arg2 == out alike.
C2_OneInputIsOutput ==
    \A s \in BlockIds, l \in Locs :
        LET i == code[l + 1] IN
        (Processed(s, l) /\ IsBinary(i) /\ i.arg1 # i.arg2) =>
            /\ i.arg1 = i.out =>
                /\ Len(ArcsOf(s, l)) = 2
                /\ Range(ArcsOf(s, l)) =
                    {SelfLoop(i.arg1, "ReadWrite"), ReadToWrite(i.arg2, i.arg1)}
            /\ i.arg2 = i.out =>
                /\ Len(ArcsOf(s, l)) = 2
                /\ Range(ArcsOf(s, l)) =
                    {SelfLoop(i.arg2, "ReadWrite"), ReadToWrite(i.arg1, i.arg2)}

C2_Witness ==
    /\ pc = "done"
    /\ \E s \in BlockIds, l \in Locs :
        /\ Processed(s, l) /\ IsBinary(code[l + 1])
        /\ code[l + 1].arg1 # code[l + 1].arg2
        /\ code[l + 1].arg2 = code[l + 1].out
        /\ Len(ArcsOf(s, l)) = 2

\* C3: a processed binary instruction over three pairwise different registers
\* has added exactly two edges, arg1 -> out and arg2 -> out, both tagged
\* (Read, Write), and no self-loop.
C3_AllDistinct ==
    \A s \in BlockIds, l \in Locs :
        LET i == code[l + 1] IN
        (Processed(s, l) /\ IsBinary(i)
            /\ i.arg1 # i.arg2 /\ i.arg1 # i.out /\ i.arg2 # i.out) =>
            /\ Len(ArcsOf(s, l)) = 2
            /\ Range(ArcsOf(s, l)) =
                {ReadToWrite(i.arg1, i.out), ReadToWrite(i.arg2, i.out)}
            /\ \A e \in Range(edges) : IsOf(s, l, e) => e.source # e.target

C3_Witness ==
    /\ pc = "done"
    /\ \E s \in BlockIds, l \in Locs :
        LET i == code[l + 1] IN
        /\ Processed(s, l) /\ IsBinary(i)
        /\ i.arg1.bank = i.arg2.bank /\ i.arg2.bank = i.out.bank
        /\ i.arg1 # i.arg2 /\ i.arg1 # i.out /\ i.arg2 # i.out
        /\ Len(ArcsOf(s, l)) = 2

\* C4: a processed one-input, one-output instruction has added exactly one
\* edge: the (ReadWrite, ReadWrite) self-loop when input and output are the
\* same bank and index, otherwise arg1 -> out tagged (Read, Write); registers
\* of different banks with one index never give a self-loop.
C4_OneInputOneOutput ==
    \A s \in BlockIds, l \in Locs :
        LET i == code[l + 1] IN
        (Processed(s, l) /\ IsUnary(i)) =>
            /\ ArcsOf(s, l) =
                IF i.arg1.bank = i.out.bank /\ i.arg1.idx = i.out.idx
                THEN <<SelfLoop(i.arg1, "ReadWrite")>>
                ELSE <<ReadToWrite(i.arg1, i.out)>>
            /\ i.arg1.bank # i.out.bank =>
                \A e \in Range(edges) : IsOf(s, l, e) => e.source # e.target

C4_Witness ==
    /\ pc = "done"
    /\ \E s \in BlockIds, l \in Locs :
        LET i == code[l + 1] IN
        /\ Processed(s, l) /\ IsUnary(i)
        /\ i.arg1.bank # i.out.bank /\ i.arg1.idx = i.out.idx
        /\ Len(ArcsOf(s, l)) = 1

\* C5: a processed JumpRel with a condition register has added exactly one
\* edge, the self-loop on the condition register tagged (Read, Read).
C5_ConditionRead ==
    \A s \in BlockIds, l \in Locs :
        LET i == code[l + 1] IN
        (Processed(s, l) /\ IsConditionRead(i)) =>
            ArcsOf(s, l) = <<SelfLoop(i.arg1, "Read")>>

C5_Witness ==
    /\ pc = "done"
    /\ \E s \in BlockIds, l \in Locs :
        /\ Processed(s, l) /\ IsConditionRead(code[l + 1])
        /\ Len(ArcsOf(s, l)) = 1

IsSkipped(i) == i.op \in MarkerOps \/ (i.op = "JumpRel" /\ i.arg1 = NoReg)

\* C6: the (block id, location) pairs on the graph's edges are those of the
\* instructions processed so far that are not LineStart, JumpErr, JumpLine
\* or an unconditional JumpRel; at the end, those of all such instructions
\* of the CFG.
C6_EdgePositions ==
    {<<e.weight.cfg_node, e.weight.instr>> : e \in Range(edges)} =
        {p \in BlockIds \X Locs : Processed(p[1], p[2]) /\ ~IsSkipped(code[p[2] + 1])}

C6_Witness ==
    /\ pc = "done"
    /\ Len(cfg) = 2
    /\ \E l \in Locs : IsSkipped(code[l + 1])
    /\ \E l \in Locs : IsConditionRead(code[l + 1])
    /\ \E e \in Range(edges) : e.weight.cfg_node = 1

Registers == AnyReg(numbers, strings, values)

\* C7: once the nodes are created, and at every step after, the graph has
\* numbers + strings + values nodes, one per register, whatever the
\* instructions; a register no instruction names is a node without edges.
C7_NodeStability ==
    pc \in {"blocks", "done"} =>
        /\ Len(nodes) = numbers + strings + values
        /\ \A r \in Registers : Cardinality({n \in 1 .. Len(nodes) : nodes[n].reg = r}) = 1
        /\ \A n \in 1 .. Len(nodes) : nodes[n].reg \in Registers

C7_Witness ==
    /\ pc = "done"
    /\ Len(edges) >= 2
    /\ Len(nodes) = numbers + strings + values
    /\ \E n \in 1 .. Len(nodes) :
        \A e \in Range(edges) : e.source # n - 1 /\ e.target # n - 1

\* how many times node index n is in dfg.globals
TimesListed(n) == Cardinality({i \in 1 .. Len(dfg_globals) : dfg_globals[i] = n})

\* the global names mapped to the register of node index n
NamesOf(n) == {g \in DOMAIN vm_globals : ValueReg(vm_globals[g]) = nodes[n + 1].reg}

\* C8, as claimed: in the returned graph every register that is a value of
\* vm.globals is in dfg.globals exactly once, and nothing else is in it.
C8_GlobalsOnce ==
    pc = "done" =>
        \A n \in 0 .. (Len(nodes) - 1) :
            TimesListed(n) = IF NamesOf(n) # {} THEN 1 ELSE 0

\* C8, amended: in the returned graph every register is in dfg.globals once
\* for each global name mapped to it (exactly once when one name maps to it,
\* never when none does), and nothing else is in it.
C8_GlobalsPerName ==
    pc = "done" =>
        /\ \A n \in 0 .. (Len(nodes) - 1) : TimesListed(n) = Cardinality(NamesOf(n))
        /\ \A i \in 1 .. Len(dfg_globals) : dfg_globals[i] \in 0 .. (Len(nodes) - 1)

C8_Witness ==
    /\ pc = "done"
    /\ Len(dfg_globals) = 2
    /\ \E n \in 0 .. (Len(nodes) - 1) : Cardinality(NamesOf(n)) = 2 /\ TimesListed(n) = 2

-----------------------------------------------------------------------------
(* Number: rendering and parsing.                                          *)

\* C9: parsing the rendering of a Number gives that Number back:
\* Number::from_str(n.stringify()) = Ok(n), for negative values of magnitude
\* below 1 and fractions below 0.1 as for the others.
C9_RoundTrip ==
    npc = "parsed" => result = Ok(num)

\* the characters after the first '.', none when there is no '.'
AfterDot(s) == IF DotAt(s) = 0 THEN <<>> ELSE SubSeq(s, DotAt(s) + 1, Len(s))

RECURSIVE DropTrailingZeros(_)
DropTrailingZeros(s) ==
    IF s # <<>> /\ s[Len(s)] = "0" THEN DropTrailingZeros(SubSeq(s, 1, Len(s) - 1)) ELSE s

\* the thousandths of a raw value as three decimal digits, leading zeros kept
Thousandths(raw) ==
    LET dec == UnsignedAbs(TruncRem(raw, SCALE)) IN
    <<FromDigit(dec \div 100), FromDigit((dec \div 10) % 10), FromDigit(dec % 10)>>

\* C10: on an empty buffer the fraction is rendered as the value's three
\* thousandth digits with the trailing zeros dropped and the leading zeros
\* kept (1500 as "1.5", -2000 as "-2", 1 as "0.001"), and a zero fraction
\* gives no decimal point.
C10_FractionDigits ==
    npc = "stringified" =>
        /\ AfterDot(buffer) = DropTrailingZeros(Thousandths(num))
        /\ (DotAt(buffer) = 0) <=> (TruncRem(num, SCALE) = 0)
        /\ num = 1500 => buffer = <<"1", ".", "5">>
        /\ num = -2000 => buffer = <<"-", "2">>
        /\ num = 1 => buffer = <<"0", ".", "0", "0", "1">>

-----------------------------------------------------------------------------
(* Number: the operators never abort.                                      *)

IsNumber(r) == r.kind = "Ok" /\ r.val \in I64

\* C11: a / Number(0) is Err(DivZero) and a % Number(0) is Err(ModZero) for
\* every dividend, MIN and MAX included; with any other divisor, raw -1
\* under the dividend MIN included, both return Ok with a Number and do not
\* abort.
C11_DivRem ==
    /\ npc = "div" => IF rhs = 0 THEN result = ErrDivZero ELSE IsNumber(result)
    /\ npc = "rem" => IF rhs = 0 THEN result = ErrModZero ELSE IsNumber(result)

\* the scaled dividend wraps to MIN and is divided by -1
C11_Witness ==
    /\ npc = "div"
    /\ rhs = -1
    /\ (num * SCALE - I64_MIN) % (2 ^ IntBits) = 0
    /\ result = Ok(I64_MIN)

\* v and w are the same modulo 2^width
SameModulo(v, w) == (v - w) % (2 ^ IntBits) = 0

\* the integer of the width that is v modulo 2^width
TwosComplement(v) ==
    LET m == v % (2 ^ IntBits)
    IN  IF m > I64_MAX THEN m - 2 ^ IntBits ELSE m

\* C12: a + b, a - b, a * b and -a give a Number for all a and b and do not
\* abort: the sum and the difference are the raw ones modulo 2^width, -MIN
\* is MIN, and the product is the raw product wrapped to the width and then
\* divided by 1000, truncating.
C12_Wrapping ==
    /\ npc \in {"add", "sub", "neg", "mul"} => IsNumber(result)
    /\ npc = "add" => SameModulo(result.val, num + rhs)
    /\ npc = "sub" => SameModulo(result.val, num - rhs)
    /\ npc = "neg" => /\ SameModulo(result.val, -num)
                      /\ num = I64_MIN => result.val = I64_MIN
    /\ npc = "mul" => result.val = Quotient(TwosComplement(num * rhs), SCALE)

\* a product that does not fit the width
C12_Witness ==
    /\ npc = "mul"
    /\ num * rhs > I64_MAX
    /\ num # 0 /\ rhs > 1
    /\ IsNumber(result)
    /\ result.val # Quotient(num * rhs, SCALE)

-----------------------------------------------------------------------------
(* Number: what from_str makes of a string.                                *)

HasSign(s) == s # <<>> /\ s[1] = "-"

\* where the integer part starts and ends, and the fraction's first three
\* positions
IntFirst(s) == IF HasSign(s) THEN 2 ELSE 1
IntLast(s) == IF DotAt(s) = 0 THEN Len(s) ELSE DotAt(s) - 1
FracPositions(s) ==
    IF DotAt(s) = 0 THEN {}
    ELSE {i \in 1 .. Len(s) : DotAt(s) < i /\ i <= DotAt(s) + 3}
DigitPositions(s) == (IntFirst(s) .. IntLast(s)) \cup FracPositions(s)

\* ['-'] digit+ ['.' digit{0,3}], whatever follows the third fraction digit
IsLiteral(s) ==
    /\ IntFirst(s) <= IntLast(s)
    /\ \A i \in DigitPositions(s) : IsAsciiDigit(s[i])

RECURSIVE Decimal(_, _, _)
\* the number written by the digits s[lo .. hi]
Decimal(s, lo, hi) ==
    IF hi < lo THEN 0 ELSE 10 * Decimal(s, lo, hi - 1) + DigitValue(s[hi])

\* the digit at fraction position k, 0 when the fraction is shorter
FracDigit(s, k) ==
    IF DotAt(s) # 0 /\ DotAt(s) + k <= Len(s) THEN DigitValue(s[DotAt(s) + k]) ELSE 0

\* the literal's value times 1000, the digits after the third dropped
ScaledValue(s) ==
    LET magnitude == Decimal(s, IntFirst(s), IntLast(s)) * SCALE
                        + 100 * FracDigit(s, 1) + 10 * FracDigit(s, 2) + FracDigit(s, 3)
    IN  IF HasSign(s) THEN -magnitude ELSE magnitude

\* C13: from_str returns Ok or a parse error for every string and never
\* aborts; a character that is not a digit in the integer part or in the
\* first three fraction positions gives UnknownChar of such a character; a
\* literal gives Overflow exactly when its value times 1000 does not fit the
\* integer, and otherwise Ok of its value truncated to three fraction digits.
C13_Parse ==
    npc = "returned" =>
        /\ result.kind \in {"Ok", "Overflow", "UnknownChar"}
        /\ (\E i \in DigitPositions(buffer) : ~IsAsciiDigit(buffer[i])) =>
            /\ result.kind = "UnknownChar"
            /\ \E i \in DigitPositions(buffer) :
                ~IsAsciiDigit(buffer[i]) /\ result.ch = buffer[i]
        /\ IsLiteral(buffer) =>
            IF ScaledValue(buffer) \in I64
            THEN result = Ok(ScaledValue(buffer))
            ELSE result = ErrOverflow

-----------------------------------------------------------------------------
(* The tags and ends of the edges.                                         *)

Tags(e) == <<e.weight.source, e.weight.target>>

\* C15: in every graph under construction or returned, an edge between two
\* different nodes is tagged (Read, Write) and a self-loop (Read, Read) or
\* (ReadWrite, ReadWrite), so the source tag is ReadWrite exactly when the
\* target tag is, and the target tag Read is on self-loops only; an
\* instruction has at most two edges; and an edge of an instruction with an
\* output register ends at that register's node.
C15_EdgeShape ==
    /\ \A e \in Range(edges) :
        /\ e.source # e.target => Tags(e) = <<"Read", "Write">>
        /\ e.source = e.target =>
            Tags(e) \in {<<"Read", "Read">>, <<"ReadWrite", "ReadWrite">>}
        /\ (e.weight.source = "ReadWrite") <=> (e.weight.target = "ReadWrite")
        /\ e.weight.target = "Read" => e.source = e.target
        /\ code[e.weight.instr + 1].out # NoReg =>
            nodes[e.target + 1].reg = code[e.weight.instr + 1].out
    /\ \A s \in BlockIds, l \in Locs : Len(ArcsOf(s, l)) <= 2

\* a returned graph with a read self-loop, an in-place self-loop and an
\* edge between two registers
C15_Witness ==
    /\ pc = "done"
    /\ \E e \in Range(edges) : e.source = e.target /\ Tags(e) = <<"Read", "Read">>
    /\ \E e \in Range(edges) : e.source = e.target /\ Tags(e) = <<"ReadWrite", "ReadWrite">>
    /\ \E e \in Range(edges) : e.source # e.target /\ Tags(e) = <<"Read", "Write">>

-----------------------------------------------------------------------------
(* The order of the blocks.                                                *)

RECURSIVE AddAll(_, _)
\* the edges es added to g one after the other
AddAll(g, es) == IF es = <<>> THEN g ELSE AddAll(AddEdge(g, Head(es)), Tail(es))

RECURSIVE BlockEdges(_, _, _)
\* g after the instructions l .. of block s, in program order
BlockEdges(g, s, l) ==
    IF l >= cfg[s + 1].hi THEN g
    ELSE LET d == Decode(code[l + 1]) IN
         BlockEdges(IF d.skip THEN g ELSE AddAll(g, EmitEdges(d, s, l, map)), s, l + 1)

RECURSIVE SequentialEdges(_, _)
\* g after the blocks s .. in the CFG's order
SequentialEdges(g, s) ==
    IF s >= Len(cfg) THEN g
    ELSE SequentialEdges(BlockEdges(g, s, cfg[s + 1].lo), s + 1)

\* the nodes step 1 creates
PreCreated ==
    BankNodes("Number", numbers) \o BankNodes("String", strings)
        \o BankNodes("Value", values)

\* how often each edge occurs in g
EdgeBag(g) == [e \in Range(g) |-> Cardinality({i \in 1 .. Len(g) : g[i] = e})]

\* C14: with the nodes created first, the graph returned after processing
\* the blocks in any order, their edges interleaved, has the nodes and the
\* multiset of edges (source node, target node, block id, location, source
\* tag, target tag) that processing the blocks in the CFG's order gives.
C14_AnyOrder ==
    pc = "done" =>
        /\ nodes = PreCreated
        /\ EdgeBag(edges) = EdgeBag(SequentialEdges(<<>>, 0))

\* a graph returned with an edge of one block added between two edges of
\* another, and so with its edges in another order than the CFG's
C14_Witness ==
    /\ pc = "done"
    /\ edges # SequentialEdges(<<>>, 0)
    /\ \E i, j, k \in 1 .. Len(edges) :
        /\ i < j /\ j < k
        /\ edges[i].weight.cfg_node = edges[k].weight.cfg_node
        /\ edges[j].weight.cfg_node # edges[i].weight.cfg_node
    /\ \E i, j \in 1 .. Len(edges) :
        i # j /\ edges[i].source = edges[j].source /\ edges[i].target = edges[j].target

====
